---- MODULE Spec2Model ----
(***************************************************************************)
(* Longshot: the concurrent redemption pipeline.                           *)
(*                                                                         *)
(* Spec        the per-session event handlers (Handler::message,           *)
(*             Handler::ready), the shared HandlerInfo, the log block of   *)
(*             each claimed event and the detached webhook tasks.          *)
(* SpecLogBlock  one LogBlock driven through its public methods in any     *)
(*             order (add_message, freeze_time, send) while time passes.   *)
(* SpecPayload WebhookPayload::new applied to one message, one profile and *)
(*             one build time under every SnipeResult.                     *)
(*                                                                         *)
(* Option<T> values are sequences: <<>> is None, <<x>> is Some(x).         *)
(***************************************************************************)
EXTENDS Integers, Sequences, FiniteSets, TLC

\* ------------------------------------------------------------ bounds
MaxEvents == 2
MaxTime == 1
MaxMessages == 2
MaxClock == 2
MaxCalls == 3

\* ------------------------------------------------------------ inputs
Sessions == {1, 2}
Events == 1..MaxEvents
Codes == {"codeA", "codeB"}
GuildIds == {"guildOk", "guildBlacklisted"}
Authors == {"alice", "bob"}

\* config.main_token() and the sorted, deduplicated sniping tokens, one per session
main_token == "token1"
sniping_tokens == [s \in Sessions |-> IF s = 1 THEN "token1" ELSE "token2"]
token_amount == Cardinality(Sessions)

\* config.is_guild_blacklisted(guild_id)
is_guild_blacklisted(guild_id) == guild_id = <<"guildBlacklisted">>

\* Profile::from(CurrentUser) of the account behind a session
ProfileOf(s) ==
  IF s = 1 THEN [username |-> "user1", avatar |-> <<>>, id |-> "id1"]
           ELSE [username |-> "user2", avatar |-> <<"av2">>, id |-> "id2"]

Profiles == {ProfileOf(s) : s \in Sessions}

\* data.guilds.len() / get_guilds(..).len() of the account behind a session
GuildAmountOf(s) == s

\* Profile::face
face(p) == IF p.avatar = <<>> THEN <<"default.png">> ELSE <<"cdn", p.id, p.avatar[1]>>

\* ------------------------------------------------------------ outcome
SnipeResults ==
  {"Success", "FakeOrExpired", "AlreadyRedeemed", "RateLimited",
   "DiscordError", "ConnectionError", "Unknown"}

\* what client.request(..).await yields: Err (transport) or a response status
Statuses == {200, 400, 404, 405, 429, 500}
Responses == {[ok |-> FALSE, status |-> 0]} \cup {[ok |-> TRUE, status |-> st] : st \in Statuses}

LogMessage(level, text, is_success) ==
  [level |-> level, text |-> text, is_success |-> is_success]

\* make_request, the match on the response: the SnipeResult returned
ClassifyStatusSwapped(resp) ==
  IF ~resp.ok THEN "ConnectionError"
  ELSE CASE resp.status = 200 -> "Success"
         [] resp.status = 405 -> "DiscordError"
         [] resp.status = 404 -> "AlreadyRedeemed"
         [] resp.status = 400 -> "FakeOrExpired"
         [] resp.status = 429 -> "RateLimited"
         [] OTHER -> "Unknown"

Classify(resp) ==
  IF ~resp.ok THEN "ConnectionError"
  ELSE CASE resp.status = 200 -> "Success"
         [] resp.status = 405 -> "DiscordError"
         [] resp.status = 404 -> "FakeOrExpired"
         [] resp.status = 400 -> "AlreadyRedeemed"
         [] resp.status = 429 -> "RateLimited"
         [] OTHER -> "Unknown"

\* make_request, the entry each arm adds to the block before returning
OutcomeMessage(resp) ==
  IF ~resp.ok THEN LogMessage("Warn", "Connection failed. Check network connection!", FALSE)
  ELSE CASE resp.status = 200 -> LogMessage("Info", "Yay! Claimed code!", TRUE)
         [] resp.status = 405 -> LogMessage("Error", "There was an error on Discord's side.", FALSE)
         [] resp.status = 404 -> LogMessage("Warn", "Code was fake or expired.", FALSE)
         [] resp.status = 400 -> LogMessage("Error", "Code was already redeemed.", FALSE)
         [] resp.status = 429 -> LogMessage("Warn", "Rate-limited...", FALSE)
         [] OTHER -> LogMessage("Error", "Received unknown response...", FALSE)

\* make_request, the unknown arm after reading the body
BodyMessage(body_ok) ==
  IF body_ok THEN LogMessage("Error", "...with this body", FALSE)
  ELSE LogMessage("Error", "...and couldn't parse the body of the response.", FALSE)

\* ------------------------------------------------------------ LogBlock
LogBlock_new(p, t) == [messages |-> <<>>, start |-> t, profile |-> p, elapsed |-> <<>>]

add_message_front(b, m) == [b EXCEPT !.messages = <<m>> \o @]

add_message(b, m) == [b EXCEPT !.messages = Append(@, m)]

freeze_time(b, t) == [b EXCEPT !.elapsed = <<t - b.start>>]

send_prepare_refreezing(b, location_cache, t) ==
  LET b1 == freeze_time(b, t)
  IN IF location_cache.ok THEN b1
     ELSE add_message(b1, LogMessage("Error", "Failed requesting location for event.", FALSE))

\* LogBlock::send up to the first println: freeze if not frozen, resolve the location
send_prepare(b, location_cache, t) ==
  LET b1 == IF b.elapsed = <<>> THEN freeze_time(b, t) ELSE b
  IN IF location_cache.ok THEN b1
     ELSE add_message(b1, LogMessage("Error", "Failed requesting location for event.", FALSE))

\* Instant::now() read by a handler whose block was created at b.start: time never
\* runs backwards, and MaxTime bounds how long a handler is followed
ClockReads(b) == (b.start + (IF b.elapsed = <<>> THEN 0 ELSE b.elapsed[1]))..MaxTime

DefaultLocation == "unknown"
send_location(location_cache) == IF location_cache.ok THEN location_cache.location ELSE DefaultLocation

Locations == {[ok |-> TRUE, location |-> "general"], [ok |-> FALSE, location |-> ""]}

\* ------------------------------------------------------------ webhook
ColorGreen == 4437377
ColorRed == 15746887
ColorBlack == 0

Embed(title, description, color) == [title |-> title, description |-> description, color |-> color]

WebhookEmbedRateLimitGreen(result) ==
  CASE result = "Success" -> Embed("Yay! Claimed a Nitro!", "Nitro successfully claimed!", ColorGreen)
    [] result = "FakeOrExpired" -> Embed("Code was fake or expired", "The code was invalid or already expired.", ColorRed)
    [] result = "AlreadyRedeemed" -> Embed("Code was already redeemed", "Someone beat us to it!", ColorRed)
    [] result = "RateLimited" -> Embed("Rate Limited", "Rate-limited by Discord.", ColorGreen)
    [] result = "DiscordError" -> Embed("Discord Error", "There was an error on Discord's side.", ColorRed)
    [] result = "ConnectionError" -> Embed("Connection Error", "Failed to connect to Discord.", ColorRed)
    [] result = "Unknown" -> Embed("Unknown Response", "Received an unknown response from Discord.", ColorBlack)

\* WebhookPayload::new, the match on the result
WebhookEmbed(result) ==
  CASE result = "Success" -> Embed("Yay! Claimed a Nitro!", "Nitro successfully claimed!", ColorGreen)
    [] result = "FakeOrExpired" -> Embed("Code was fake or expired", "The code was invalid or already expired.", ColorRed)
    [] result = "AlreadyRedeemed" -> Embed("Code was already redeemed", "Someone beat us to it!", ColorRed)
    [] result = "RateLimited" -> Embed("Rate Limited", "Rate-limited by Discord.", ColorRed)
    [] result = "DiscordError" -> Embed("Discord Error", "There was an error on Discord's side.", ColorRed)
    [] result = "ConnectionError" -> Embed("Connection Error", "Failed to connect to Discord.", ColorRed)
    [] result = "Unknown" -> Embed("Unknown Response", "Received an unknown response from Discord.", ColorBlack)

get_longshot_avatar == "https://yes.nighty.works/raw/IH8LqF.png"

\* WebhookPayload::new, the embed and the payload around it
PayloadFields(m, finder, e, footer_text, t) ==
  [username |-> "Longshot",
   avatar_url |-> get_longshot_avatar,
   author |-> [icon_url |-> face(finder), name |-> finder.username],
   title |-> e.title,
   description |-> e.description,
   sent_by |-> <<"Code sent by:", m.author, "https://discord.com/users/", m.author_id>>,
   posted |-> <<"Message:", "https://discordapp.com/channels/",
                IF m.guild_id = <<>> THEN "@me" ELSE m.guild_id[1], m.channel_id, m.id>>,
   footer |-> [icon_url |-> get_longshot_avatar, text |-> footer_text],
   timestamp |-> t,
   color |-> e.color]

WebhookPayload_new_ResultInFooter(m, finder, result, t) ==
  PayloadFields(m, finder, WebhookEmbed(result), <<"Longshot", result>>, t)

\* WebhookPayload::new: the payload built for message m found by profile finder at time t
WebhookPayload_new(m, finder, result, t) ==
  PayloadFields(m, finder, WebhookEmbed(result), <<"Longshot", "version">>, t)

\* ------------------------------------------------------------ state
VARIABLES
  seen_codes,     \* HandlerInfo.seen_codes, the set behind the mutex
  lock,           \* holder of the seen_codes mutex guard: 0 or an event
  initialized,    \* Handler.initialized, per session
  profile,        \* Handler.profile (OnceCell), per session
  connected,      \* HandlerInfo.connected
  total_guilds,   \* HandlerInfo.total_guilds
  webhook_url,    \* config.webhook(): <<>> or <<url>>
  rpc,            \* position of each session's ready handler
  pc,             \* position of each message handler
  msg,            \* the Message each handler was called with
  content,        \* what the handler has read of it: its server and the code in its text
  log,            \* local `log` of the handler: its LogBlock
  response,       \* local `response` of make_request
  result,         \* local `result` of the handler
  location,       \* local `location` of the handler
  next_line,      \* LogBlock::send: index of the next entry to print
  requests,       \* redeem requests handed to the HTTP client
  stdout,         \* lines printed by LogBlock::send, in order
  webhooks,       \* the detached webhook task of each handler
  blk, clock, printed, calls,      \* SpecLogBlock: one block, its clock, its output, its calls
  pin, built,                      \* SpecPayload: the inputs and the payloads built
  main_pc,        \* position of main
  validation,     \* what get_profile_for_token returned for the main token
  index,          \* main's loop over the sniping tokens: the next one
  task,           \* per sniping token: its session's task
  exit_message,   \* the text of the error! that precedes pause_exit
  prompted        \* pause_exit has written its prompt and reads stdin

sharedVars == <<seen_codes, lock, initialized, profile, connected, total_guilds>>
localVars == <<log, response, result, location, next_line>>
eventVars == <<pc, msg, content, localVars>>
outVars == <<requests, stdout, webhooks>>
pipeVars == <<sharedVars, webhook_url, rpc, eventVars, outVars>>
blockVars == <<blk, clock, printed, calls>>
payloadVars == <<pin, built>>
mainVars == <<main_pc, validation, index, task, exit_message, prompted>>
vars == <<pipeVars, blockVars, payloadVars, mainVars>>

SessionOf(e) == msg[e][1].session

\* what a delivered message carries: its server and the code get_gift_code finds in it
Contents ==
  {[guild_id |-> <<"guildOk">>, gift_code |-> <<"codeA">>],
   [guild_id |-> <<"guildOk">>, gift_code |-> <<"codeB">>],
   [guild_id |-> <<"guildOk">>, gift_code |-> <<>>],
   [guild_id |-> <<"guildBlacklisted">>, gift_code |-> <<"codeA">>]}

\* the rest of a delivered message; the gateway hands it to the session's handler
Messages ==
  {[session |-> s, id |-> e, author |-> "alice", author_id |-> "idAlice", channel_id |-> "chan"] :
      s \in Sessions, e \in Events}

\* the Message as a whole, once its content has been read
M(e) ==
  [id |-> msg[e][1].id, author |-> msg[e][1].author, author_id |-> msg[e][1].author_id,
   channel_id |-> msg[e][1].channel_id, guild_id |-> content[e][1].guild_id,
   gift_code |-> content[e][1].gift_code]

\* main starts the sessions one after the other, in token order: the first session
\* has handled its Ready event, the last one has connected and handled nothing yet
FirstSession == 1
Started(s) == s = FirstSession

InitPipe ==
  /\ seen_codes = {}
  /\ lock = 0
  /\ initialized = [s \in Sessions |-> Started(s)]
  /\ profile = [s \in Sessions |-> IF Started(s) THEN <<ProfileOf(s)>> ELSE <<>>]
  /\ connected = 1
  /\ total_guilds = GuildAmountOf(FirstSession)
  /\ webhook_url \in {<<>>, <<"https://sink">>}
  /\ rpc = [s \in Sessions |-> IF Started(s) THEN "done" ELSE "idle"]
  /\ pc = [e \in Events |-> "idle"]
  /\ msg = [e \in Events |-> <<>>]
  /\ content = [e \in Events |-> <<>>]
  /\ log = [e \in Events |-> <<>>]
  /\ response = [e \in Events |-> <<>>]
  /\ result = [e \in Events |-> <<>>]
  /\ location = [e \in Events |-> <<>>]
  /\ next_line = [e \in Events |-> 0]
  /\ requests = {}
  /\ stdout = <<>>
  /\ webhooks = [e \in Events |-> <<>>]

IdleBlock ==
  /\ blk = LogBlock_new(ProfileOf(1), 0)
  /\ clock = 0
  /\ printed = <<>>
  /\ calls = <<>>

IdlePayload ==
  /\ pin = <<>>
  /\ built = {}

\* main has started every session and waits in join_all
MainJoined ==
  /\ main_pc = "join"
  /\ validation = <<"Ok">>
  /\ index = token_amount + 1
  /\ task = [s \in Sessions |-> "running"]
  /\ exit_message = <<>>
  /\ prompted = FALSE

Init == InitPipe /\ IdleBlock /\ IdlePayload /\ MainJoined

\* ------------------------------------------------------------ Handler::initialize
CanSetProfileAgain(s) == TRUE

\* self.profile.set(profile).unwrap() succeeds on an empty cell only
CanSetProfile(s) == profile[s] = <<>>

\* profile.set and the two fetch_add calls (no await between them)
Initialize(s, guild_amount) ==
  /\ profile' = [profile EXCEPT ![s] = <<ProfileOf(s)>>]
  /\ total_guilds' = total_guilds + guild_amount
  /\ connected' = connected + 1

\* ------------------------------------------------------------ Handler::ready
\* the session's Ready event is handled: self.initialized.load(), return when set
ReadyLoad(s) ==
  /\ rpc[s] = "idle"
  /\ rpc' = [rpc EXCEPT ![s] = IF initialized[s] THEN "returned" ELSE "r_store"]
  /\ UNCHANGED <<sharedVars, webhook_url, eventVars, outVars, blockVars, payloadVars, mainVars>>

\* self.initialized.store(true)
ReadyStore(s) ==
  /\ rpc[s] = "r_store"
  /\ initialized' = [initialized EXCEPT ![s] = TRUE]
  /\ rpc' = [rpc EXCEPT ![s] = "r_init"]
  /\ UNCHANGED <<seen_codes, lock, profile, connected, total_guilds, webhook_url,
                 eventVars, outVars, blockVars, payloadVars, mainVars>>

\* self.initialize(Profile::from(data.user), data.guilds.len())
ReadyInitialize(s) ==
  /\ rpc[s] = "r_init"
  /\ IF CanSetProfile(s)
       THEN /\ Initialize(s, GuildAmountOf(s))
            /\ rpc' = [rpc EXCEPT ![s] = "done"]
       ELSE /\ rpc' = [rpc EXCEPT ![s] = "panicked"]
            /\ UNCHANGED <<profile, total_guilds, connected>>
  /\ UNCHANGED <<seen_codes, lock, initialized, webhook_url,
                 eventVars, outVars, blockVars, payloadVars, mainVars>>

\* ------------------------------------------------------------ Handler::message
FilterBlacklistIgnored(c) == IF c.gift_code = <<>> THEN "discarded" ELSE "m_lock"

\* is_guild_blacklisted and get_gift_code: discard, or go on to the lock
Filter(c) ==
  IF is_guild_blacklisted(c.guild_id) \/ c.gift_code = <<>> THEN "discarded" ELSE "m_lock"

MessageLoadNoProfileTest(e) ==
  /\ pc[e] = "idle"
  /\ IF e = 1 THEN TRUE ELSE pc[e - 1] # "idle"
  /\ \E m \in Messages :
       /\ m.id = e
       /\ msg' = [msg EXCEPT ![e] = <<m>>]
       /\ IF ~initialized[m.session]
            THEN pc' = [pc EXCEPT ![e] = "m_store"] /\ UNCHANGED content
            ELSE \E c \in Contents :
                   /\ content' = [content EXCEPT ![e] = <<c>>]
                   /\ pc' = [pc EXCEPT ![e] = Filter(c)]
  /\ UNCHANGED <<sharedVars, webhook_url, rpc, localVars, outVars, blockVars, payloadVars, mainVars>>

\* a message is delivered to a session's handler: the test of self.initialized,
\* of the profile cell when it is set, and the filters when both pass
MessageLoad(e) ==
  /\ pc[e] = "idle"
  /\ IF e = 1 THEN TRUE ELSE pc[e - 1] # "idle"
  /\ \E m \in Messages :
       /\ m.id = e
       /\ msg' = [msg EXCEPT ![e] = <<m>>]
       /\ IF ~initialized[m.session]
            THEN pc' = [pc EXCEPT ![e] = "m_store"] /\ UNCHANGED content
            ELSE IF profile[m.session] = <<>>
              THEN pc' = [pc EXCEPT ![e] = "dropped"] /\ UNCHANGED content
              ELSE \E c \in Contents :
                     /\ content' = [content EXCEPT ![e] = <<c>>]
                     /\ pc' = [pc EXCEPT ![e] = Filter(c)]
  /\ UNCHANGED <<sharedVars, webhook_url, rpc, localVars, outVars, blockVars, payloadVars, mainVars>>

\* initialize_from_raw: self.initialized.store(true)
RawStore(e) ==
  /\ pc[e] = "m_store"
  /\ initialized' = [initialized EXCEPT ![SessionOf(e)] = TRUE]
  /\ pc' = [pc EXCEPT ![e] = "m_user"]
  /\ UNCHANGED <<seen_codes, lock, profile, connected, total_guilds, webhook_url, rpc,
                 msg, content, localVars, outVars, blockVars, payloadVars, mainVars>>

\* initialize_from_raw: http.get_current_user().await.unwrap()
RawUser(e) ==
  /\ pc[e] = "m_user"
  /\ \E ok \in BOOLEAN : pc' = [pc EXCEPT ![e] = IF ok THEN "m_guilds" ELSE "panicked"]
  /\ UNCHANGED <<sharedVars, webhook_url, rpc, msg, content, localVars, outVars,
                 blockVars, payloadVars, mainVars>>

\* initialize_from_raw: http.get_guilds(..).await.unwrap(), then self.initialize(..)
\* and, back in the handler, the filters
RawGuilds(e) ==
  /\ pc[e] = "m_guilds"
  /\ \E ok \in BOOLEAN :
       IF ok /\ CanSetProfile(SessionOf(e))
         THEN /\ Initialize(SessionOf(e), GuildAmountOf(SessionOf(e)))
              /\ \E c \in Contents :
                   /\ content' = [content EXCEPT ![e] = <<c>>]
                   /\ pc' = [pc EXCEPT ![e] = Filter(c)]
         ELSE /\ pc' = [pc EXCEPT ![e] = "panicked"]
              /\ UNCHANGED <<profile, total_guilds, connected, content>>
  /\ UNCHANGED <<seen_codes, lock, initialized, webhook_url, rpc,
                 msg, localVars, outVars, blockVars, payloadVars, mainVars>>

\* seen_codes.contains(&gift_code)
ContainsNever(codes, c) == FALSE

Contains(codes, c) == c \in codes

\* seen_codes.insert(gift_code.clone())
InsertForgotten(codes, c) == codes

Insert(codes, c) == codes \cup {c}

\* who holds the MutexGuard `seen_codes` once the insert is done: the guard is a
\* local of the `if let` body and lives to the end of it
GuardReleasedAfterInsert(e) == 0

GuardAfterInsert(e) == e

\* the guard dropped at the end of the handler
DropGuardLeaked(e) == lock

DropGuard(e) == IF lock = e THEN 0 ELSE lock

\* make_request: the Authorization header of the redeem request
AuthorizationOfSession(e) == sniping_tokens[SessionOf(e)]

Authorization(e) == main_token

\* seen_codes.lock().await, the test and the insert, LogBlock::new and the first entry
Claim(e) ==
  /\ pc[e] = "m_lock"
  /\ lock = 0
  /\ LET c == M(e).gift_code[1]
         s == SessionOf(e)
     IN IF Contains(seen_codes, c)
          THEN /\ pc' = [pc EXCEPT ![e] = "duplicate"]
               /\ UNCHANGED <<seen_codes, lock, log>>
          ELSE /\ seen_codes' = Insert(seen_codes, c)
               /\ IF profile[s] = <<>>
                    THEN /\ pc' = [pc EXCEPT ![e] = "panicked"]
                         /\ UNCHANGED <<lock, log>>
                    ELSE /\ lock' = GuardAfterInsert(e)
                         /\ log' = [log EXCEPT ![e] =
                              <<add_message(LogBlock_new(profile[s][1], 0),
                                            LogMessage("Info", "Claiming code", FALSE))>>]
                         /\ pc' = [pc EXCEPT ![e] = "m_request"]
  /\ UNCHANGED <<initialized, profile, connected, total_guilds, webhook_url, rpc,
                 msg, content, response, result, location, next_line, outVars,
                 blockVars, payloadVars, mainVars>>

\* make_request: the request is built and handed to the client
MakeRequest(e) ==
  /\ pc[e] = "m_request"
  /\ requests' = requests \cup
       {[event |-> e, session |-> SessionOf(e), code |-> M(e).gift_code[1],
         authorization |-> Authorization(e),
         attempt |-> Cardinality({r \in requests : r.event = e}) + 1]}
  /\ pc' = [pc EXCEPT ![e] = "m_response"]
  /\ UNCHANGED <<sharedVars, webhook_url, rpc, msg, content, localVars,
                 stdout, webhooks, blockVars, payloadVars, mainVars>>

\* where make_request goes once the arm's entry is added
AfterResponseReturnOnError(resp) ==
  IF ~resp.ok THEN "returned" ELSE IF Classify(resp) = "Unknown" THEN "m_body" ELSE "m_freeze"

AfterResponseRetryRateLimited(resp) ==
  IF resp.ok /\ resp.status = 429 THEN "m_request"
  ELSE IF resp.ok /\ Classify(resp) = "Unknown" THEN "m_body" ELSE "m_freeze"

AfterResponse(resp) == IF resp.ok /\ Classify(resp) = "Unknown" THEN "m_body" ELSE "m_freeze"

\* make_request: the response arrives (or the transport fails); the arm taken
\* adds its entry and fixes the SnipeResult returned
Response(e) ==
  /\ pc[e] = "m_response"
  /\ \E resp \in Responses :
       /\ response' = [response EXCEPT ![e] = <<resp>>]
       /\ log' = [log EXCEPT ![e] = <<add_message(log[e][1], OutcomeMessage(resp))>>]
       /\ result' = [result EXCEPT ![e] = <<Classify(resp)>>]
       /\ pc' = [pc EXCEPT ![e] = AfterResponse(resp)]
  /\ UNCHANGED <<sharedVars, webhook_url, rpc, msg, content, location, next_line,
                 outVars, blockVars, payloadVars, mainVars>>

\* make_request, unknown arm: hyper::body::to_bytes(..).await and the UTF-8 parse
Body(e) ==
  /\ pc[e] = "m_body"
  /\ \E body_ok \in BOOLEAN :
       log' = [log EXCEPT ![e] = <<add_message(log[e][1], BodyMessage(body_ok))>>]
  /\ pc' = [pc EXCEPT ![e] = "m_freeze"]
  /\ UNCHANGED <<sharedVars, webhook_url, rpc, msg, content, response, result, location, next_line,
                 outVars, blockVars, payloadVars, mainVars>>

FreezeTimeSkipped(e) ==
  /\ pc[e] = "m_freeze"
  /\ pc' = [pc EXCEPT ![e] = "m_location"]
  /\ UNCHANGED <<sharedVars, webhook_url, rpc, msg, content, localVars,
                 outVars, blockVars, payloadVars, mainVars>>

\* log.freeze_time(), then the location lookup starts
FreezeTime(e) ==
  /\ pc[e] = "m_freeze"
  /\ \E t \in ClockReads(log[e][1]) :
       log' = [log EXCEPT ![e] = <<freeze_time(log[e][1], t)>>]
  /\ pc' = [pc EXCEPT ![e] = "m_location"]
  /\ UNCHANGED <<sharedVars, webhook_url, rpc, msg, content, response, result, location, next_line,
                 outVars, blockVars, payloadVars, mainVars>>

\* get_and_cache_location(..).await returns
Location(e) ==
  /\ pc[e] = "m_location"
  /\ \E l \in Locations : location' = [location EXCEPT ![e] = <<l>>]
  /\ pc' = [pc EXCEPT ![e] = "m_send"]
  /\ UNCHANGED <<sharedVars, webhook_url, rpc, msg, content, log, response, result, next_line,
                 outVars, blockVars, payloadVars, mainVars>>

\* the lines LogBlock::send prints: the header with its location, entry i of the
\* block, the elapsed time
Line(e, kind, i, loc) == [event |-> e, kind |-> kind, index |-> i, location |-> loc]

\* LogBlock::send: the freeze test, the location match and the header println
SendHeader(e) ==
  /\ pc[e] = "m_send"
  /\ \E t \in ClockReads(log[e][1]) :
       log' = [log EXCEPT ![e] = <<send_prepare(log[e][1], location[e][1], t)>>]
  /\ stdout' = Append(stdout, Line(e, "header", 0, <<send_location(location[e][1])>>))
  /\ next_line' = [next_line EXCEPT ![e] = 1]
  /\ pc' = [pc EXCEPT ![e] = "m_lines"]
  /\ UNCHANGED <<sharedVars, webhook_url, rpc, msg, content, response, result, location,
                 requests, webhooks, blockVars, payloadVars, mainVars>>

\* LogBlock::send: message.send() of the next entry
SendLine(e) ==
  /\ pc[e] = "m_lines"
  /\ next_line[e] <= Len(log[e][1].messages)
  /\ stdout' = Append(stdout, Line(e, "entry", next_line[e], <<>>))
  /\ next_line' = [next_line EXCEPT ![e] = @ + 1]
  /\ UNCHANGED <<sharedVars, webhook_url, rpc, pc, msg, content, log, response, result, location,
                 requests, webhooks, blockVars, payloadVars, mainVars>>

\* LogBlock::send: the "Finished in" println, self.elapsed.unwrap()
SendElapsed(e) ==
  /\ pc[e] = "m_lines"
  /\ next_line[e] > Len(log[e][1].messages)
  /\ log[e][1].elapsed # <<>>
  /\ stdout' = Append(stdout, Line(e, "elapsed", 0, <<>>))
  /\ pc' = [pc EXCEPT ![e] = "m_webhook"]
  /\ UNCHANGED <<sharedVars, webhook_url, rpc, msg, content, localVars,
                 requests, webhooks, blockVars, payloadVars, mainVars>>

WebhookTaskUnlessConnectionError(url, finder, r) ==
  IF url = <<>> \/ r = <<"ConnectionError">> THEN <<>>
  ELSE <<[state |-> "spawned", profile |-> finder, result |-> r,
          payload |-> <<>>, answer |-> <<>>]>>

\* send_webhook: the task spawned, owning clones of the profile and of the result,
\* when config.webhook() is Some; nothing otherwise
WebhookTask(url, finder, r) ==
  IF url = <<>> THEN <<>>
  ELSE <<[state |-> "spawned", profile |-> finder, result |-> r,
          payload |-> <<>>, answer |-> <<>>]>>

SendWebhookAwaited(e) ==
  /\ pc[e] = "m_webhook"
  /\ webhooks' = [webhooks EXCEPT ![e] =
       WebhookTask(webhook_url, profile[SessionOf(e)], result[e])]
  /\ pc' = [pc EXCEPT ![e] = IF webhook_url = <<>> THEN "done" ELSE "m_webhook_wait"]
  /\ lock' = IF webhook_url = <<>> THEN DropGuard(e) ELSE lock
  /\ UNCHANGED <<seen_codes, initialized, profile, connected, total_guilds, webhook_url, rpc,
                 msg, content, localVars, requests, stdout, blockVars, payloadVars, mainVars>>

\* send_webhook: spawn the detached task when a webhook is configured; the handler
\* returns, its locals and the guard are dropped
SendWebhook(e) ==
  /\ pc[e] = "m_webhook"
  /\ webhooks' = [webhooks EXCEPT ![e] =
       WebhookTask(webhook_url, profile[SessionOf(e)], result[e])]
  /\ lock' = DropGuard(e)
  /\ log' = [log EXCEPT ![e] = <<>>]
  /\ response' = [response EXCEPT ![e] = <<>>]
  /\ result' = [result EXCEPT ![e] = <<>>]
  /\ location' = [location EXCEPT ![e] = <<>>]
  /\ next_line' = [next_line EXCEPT ![e] = 0]
  /\ pc' = [pc EXCEPT ![e] = "done"]
  /\ UNCHANGED <<seen_codes, initialized, profile, connected, total_guilds, webhook_url, rpc,
                 msg, content, requests, stdout, blockVars, payloadVars, mainVars>>

\* ------------------------------------------------------------ Webhook::send
\* the spawned task builds the payload and posts it
WebhookPost(e) ==
  /\ webhooks[e] # <<>>
  /\ webhooks[e][1].state = "spawned"
  /\ \E t \in 0..MaxTime :
     LET w == webhooks[e][1]
     IN webhooks' = [webhooks EXCEPT ![e] =
          <<[w EXCEPT !.state = "posted",
                      !.payload = <<WebhookPayload_new(M(e), w.profile[1], w.result[1], t)>>]>>]
  /\ UNCHANGED <<sharedVars, webhook_url, rpc, eventVars, requests, stdout,
                 blockVars, payloadVars, mainVars>>

\* what client.request(..).await yields for the webhook post
WebhookResponses == {[ok |-> FALSE, status |-> 0], [ok |-> TRUE, status |-> 204],
                     [ok |-> TRUE, status |-> 400]}

\* Webhook::send: Ok(()) on 204 No Content only
WebhookResult(resp) == IF resp.ok /\ resp.status = 204 THEN "Ok" ELSE "Err"

\* the sink answers and Webhook::send returns WebhookResult(resp); `let _ =` discards
\* it and the task ends, dropping what it owned
WebhookAnswer(e) ==
  /\ webhooks[e] # <<>>
  /\ webhooks[e][1].state = "posted"
  /\ \E resp \in WebhookResponses :
       webhooks' = [webhooks EXCEPT ![e] =
         <<[state |-> "finished", profile |-> <<>>, result |-> <<>>, payload |-> <<>>,
            answer |-> <<WebhookResult(resp)>>]>>]
  /\ UNCHANGED <<sharedVars, webhook_url, rpc, eventVars, requests, stdout,
                 blockVars, payloadVars, mainVars>>

Next ==
  \/ \E s \in Sessions : ReadyLoad(s)
  \/ \E s \in Sessions : ReadyStore(s)
  \/ \E s \in Sessions : ReadyInitialize(s)
  \/ \E e \in Events : MessageLoad(e)
  \/ \E e \in Events : RawStore(e)
  \/ \E e \in Events : RawUser(e)
  \/ \E e \in Events : RawGuilds(e)
  \/ \E e \in Events : Claim(e)
  \/ \E e \in Events : MakeRequest(e)
  \/ \E e \in Events : Response(e)
  \/ \E e \in Events : Body(e)
  \/ \E e \in Events : FreezeTime(e)
  \/ \E e \in Events : Location(e)
  \/ \E e \in Events : SendHeader(e)
  \/ \E e \in Events : SendLine(e)
  \/ \E e \in Events : SendElapsed(e)
  \/ \E e \in Events : SendWebhook(e)
  \/ \E e \in Events : WebhookPost(e)
  \/ \E e \in Events : WebhookAnswer(e)

Spec == Init /\ [][Next]_vars

\* ------------------------------------------------------------ main
\* what client.request(..).await yields for GET /users/@me, and for a 200 what
\* becomes of its body: the stream fails, the bytes are no UTF-8, the text is no
\* Profile, or it is one
ProfileBodies == {"stream_error", "bad_utf8", "malformed", "profile"}
ProfileResponses ==
  {[ok |-> FALSE, status |-> 0, body |-> "none"]}
    \cup {[ok |-> TRUE, status |-> 200, body |-> b] : b \in ProfileBodies}
    \cup {[ok |-> TRUE, status |-> st, body |-> "none"] : st \in {401, 429, 500}}

\* get_profile_for_token: Ok(profile), Err(ProfileError) or, where expect() fails, a panic
get_profile_for_token(resp) ==
  IF ~resp.ok THEN "ConnectionError"
  ELSE CASE resp.status = 200 ->
              (CASE resp.body = "stream_error" -> "Other"
                 [] resp.body = "bad_utf8" -> "Panic"
                 [] resp.body = "malformed" -> "Panic"
                 [] OTHER -> "Ok")
         [] resp.status = 401 -> "Unauthorized"
         [] resp.status = 429 -> "RateLimited"
         [] OTHER -> "Other"

ProfileErrors == {"Unauthorized", "RateLimited", "ConnectionError", "Other"}

\* ProfileError::handle: the text handed to log_error_and_exit!
ProfileError_handle(err) ==
  CASE err = "Unauthorized" -> "Main token verification failed. Check token validity."
    [] err = "RateLimited" -> "Rate-limited. Try again later..."
    [] err = "ConnectionError" -> "Connection failed. Check network connection!"
    [] err = "Other" -> "Received unknown response for Discord..."

\* the process is gone once main has called exit or has panicked
Terminated == main_pc \in {"exited", "panicked"}
Alive == ~Terminated

\* HandlerInfo::new and Handler::new: nothing is connected, nothing is initialized
FreshPipe ==
  /\ seen_codes = {}
  /\ lock = 0
  /\ initialized = [s \in Sessions |-> FALSE]
  /\ profile = [s \in Sessions |-> <<>>]
  /\ connected = 0
  /\ total_guilds = 0
  /\ webhook_url \in {<<>>, <<"https://sink">>}
  /\ rpc = [s \in Sessions |-> "idle"]
  /\ pc = [e \in Events |-> "idle"]
  /\ msg = [e \in Events |-> <<>>]
  /\ content = [e \in Events |-> <<>>]
  /\ log = [e \in Events |-> <<>>]
  /\ response = [e \in Events |-> <<>>]
  /\ result = [e \in Events |-> <<>>]
  /\ location = [e \in Events |-> <<>>]
  /\ next_line = [e \in Events |-> 0]
  /\ requests = {}
  /\ stdout = <<>>
  /\ webhooks = [e \in Events |-> <<>>]

\* main has read the config and sent the request that validates the main token
InitMain ==
  /\ FreshPipe /\ IdleBlock /\ IdlePayload
  /\ main_pc = "validate"
  /\ validation = <<>>
  /\ index = 1
  /\ task = [s \in Sessions |-> "none"]
  /\ exit_message = <<>>
  /\ prompted = FALSE

\* get_profile_for_token(..).await.map_err(|e| e.handle()).unwrap()
Validate ==
  /\ main_pc = "validate"
  /\ \E resp \in ProfileResponses :
       LET r == get_profile_for_token(resp)
       IN /\ validation' = <<r>>
          /\ IF r = "Ok"
               THEN main_pc' = "connect" /\ UNCHANGED <<exit_message, prompted>>
               ELSE IF r = "Panic"
                 THEN main_pc' = "panicked" /\ UNCHANGED <<exit_message, prompted>>
                 ELSE /\ main_pc' = "pause"
                      /\ exit_message' = <<ProfileError_handle(r)>>
                      /\ prompted' = TRUE
  /\ UNCHANGED <<index, task, pipeVars, blockVars, payloadVars>>

\* what becomes of a token whose DiscordClient::builder(..).await returned
SpawnedTask(built_ok) == IF built_ok THEN "running" ELSE "skipped"

\* where the loop over the sniping tokens goes after token s
NextIndexRetried(s, built_ok) == IF built_ok THEN s + 1 ELSE s

NextIndex(s, built_ok) == s + 1

\* one turn of the loop over the sniping tokens: the client is built and its task
\* spawned, or the failure is logged and the token skipped
Connect(s) ==
  /\ main_pc = "connect"
  /\ index = s
  /\ \E built_ok \in BOOLEAN :
       /\ task' = [task EXCEPT ![s] = SpawnedTask(built_ok)]
       /\ index' = NextIndex(s, built_ok)
       /\ main_pc' = IF NextIndex(s, built_ok) > token_amount THEN "join" ELSE "connect"
  /\ UNCHANGED <<validation, exit_message, prompted, pipeVars, blockVars, payloadVars>>

\* a session's task: discord_client.start().await returns, with an error (logged) or not
TaskEnd(s) ==
  /\ task[s] = "running"
  /\ \E connection_ok \in BOOLEAN :
       task' = [task EXCEPT ![s] = IF connection_ok THEN "ended" ELSE "failed"]
  /\ UNCHANGED <<main_pc, validation, index, exit_message, prompted,
                 pipeVars, blockVars, payloadVars>>

\* join_all(tasks).await returns when ... of the spawned tasks are finished
JoinAny == \E s \in Sessions : task[s] \in {"ended", "failed"}

JoinAll == \A s \in Sessions : task[s] # "running"

\* join_all returns; log_error_and_exit!("Lost all connections.") up to its read of stdin
Join ==
  /\ main_pc = "join"
  /\ JoinAll
  /\ main_pc' = "pause"
  /\ exit_message' = <<"Lost all connections.">>
  /\ prompted' = TRUE
  /\ UNCHANGED <<validation, index, task, pipeVars, blockVars, payloadVars>>

\* pause_exit: stdin().read_exact(..).unwrap() returns a byte and exit(1) is called,
\* or stdin is at its end and unwrap panics
Acknowledge ==
  /\ main_pc = "pause"
  /\ \E byte_read \in BOOLEAN : main_pc' = IF byte_read THEN "exited" ELSE "panicked"
  /\ UNCHANGED <<validation, index, task, exit_message, prompted,
                 pipeVars, blockVars, payloadVars>>

\* the gateway hands a session its Ready event while the session is connected
SessionReady(s) == task[s] = "running" /\ ReadyLoad(s)

MainStep == Validate \/ (\E s \in Sessions : Connect(s)) \/ Join \/ Acknowledge

NextMain ==
  \/ Validate
  \/ \E s \in Sessions : Connect(s)
  \/ \E s \in Sessions : TaskEnd(s)
  \/ Join
  \/ Acknowledge
  \/ \E s \in Sessions : Alive /\ SessionReady(s)
  \/ \E s \in Sessions : Alive /\ ReadyStore(s)
  \/ \E s \in Sessions : Alive /\ ReadyInitialize(s)

SpecMain == InitMain /\ [][NextMain]_vars

\* the gateway hands a session a message while the session is connected
SessionMessage(e) == MessageLoad(e) /\ task[SessionOf(e)'] = "running"

\* main, the sessions' tasks and the handlers of the first message delivered
NextSessions ==
  \/ NextMain
  \/ Alive /\ SessionMessage(1)
  \/ \E e \in Events : Alive /\ RawStore(e)
  \/ \E e \in Events : Alive /\ RawUser(e)
  \/ \E e \in Events : Alive /\ RawGuilds(e)
  \/ \E e \in Events : Alive /\ Claim(e)
  \/ \E e \in Events : Alive /\ MakeRequest(e)
  \/ \E e \in Events : Alive /\ Response(e)
  \/ \E e \in Events : Alive /\ Body(e)
  \/ \E e \in Events : Alive /\ FreezeTime(e)
  \/ \E e \in Events : Alive /\ Location(e)
  \/ \E e \in Events : Alive /\ SendHeader(e)
  \/ \E e \in Events : Alive /\ SendLine(e)
  \/ \E e \in Events : Alive /\ SendElapsed(e)
  \/ \E e \in Events : Alive /\ SendWebhook(e)
  \/ \E e \in Events : Alive /\ WebhookPost(e)
  \/ \E e \in Events : Alive /\ WebhookAnswer(e)

SpecSessions == InitMain /\ [][NextSessions]_vars

\* main is scheduled, its awaits return and stdin answers
FairSpecMain == SpecMain /\ WF_vars(MainStep)

\* ------------------------------------------------------------ message handlers alone
\* every session has handled its Ready event: the flag and the profile cell are
\* set, the counters count every session
InitReady ==
  /\ seen_codes = {}
  /\ lock = 0
  /\ initialized = [s \in Sessions |-> TRUE]
  /\ profile = [s \in Sessions |-> <<ProfileOf(s)>>]
  /\ connected = token_amount
  /\ total_guilds = GuildAmountOf(1) + GuildAmountOf(2)
  /\ webhook_url \in {<<>>, <<"https://sink">>}
  /\ rpc = [s \in Sessions |-> "done"]
  /\ pc = [e \in Events |-> "idle"]
  /\ msg = [e \in Events |-> <<>>]
  /\ content = [e \in Events |-> <<>>]
  /\ log = [e \in Events |-> <<>>]
  /\ response = [e \in Events |-> <<>>]
  /\ result = [e \in Events |-> <<>>]
  /\ location = [e \in Events |-> <<>>]
  /\ next_line = [e \in Events |-> 0]
  /\ requests = {}
  /\ stdout = <<>>
  /\ webhooks = [e \in Events |-> <<>>]

InitMessages == InitReady /\ IdleBlock /\ IdlePayload /\ MainJoined

\* one step of the handler of e once its message is delivered: the lock is granted,
\* an awaited call returns, or the handler runs on to its next await
MessageStep(e) ==
  \/ Claim(e)
  \/ MakeRequest(e)
  \/ Response(e)
  \/ Body(e)
  \/ FreezeTime(e)
  \/ Location(e)
  \/ SendHeader(e)
  \/ SendLine(e)
  \/ SendElapsed(e)
  \/ SendWebhook(e)

NextMessages ==
  \/ \E e \in Events : MessageLoad(e)
  \/ \E e \in Events : MessageStep(e)
  \/ \E e \in Events : WebhookPost(e)
  \/ \E e \in Events : WebhookAnswer(e)

SpecMessages == InitMessages /\ [][NextMessages]_vars

\* the runtime schedules every handler that can run, the awaited calls return and
\* the mutex is granted once it is free
FairSpecMessages == SpecMessages /\ \A e \in Events : WF_vars(MessageStep(e))

\* ------------------------------------------------------------ LogBlock alone
\* what one call of LogBlock::send prints for block b (already prepared):
\* the header, every entry in order, the elapsed time
SendOutput(b, location_cache, sender) ==
  <<<<"header", b.profile.username, send_location(location_cache), sender>>>>
  \o [i \in 1..Len(b.messages) |-> <<"entry", b.messages[i].level, b.messages[i].text>>]
  \o <<<<"elapsed", b.elapsed[1]>>>>

IdlePipe == InitPipe /\ webhook_url = <<>>

\* a block is created by LogBlock::new at some instant
InitLogBlock ==
  /\ IdlePipe /\ IdlePayload /\ MainJoined
  /\ clock \in 0..1
  /\ \E p \in Profiles : blk = LogBlock_new(p, clock)
  /\ printed = <<>>
  /\ calls = <<>>

BlockMessages ==
  {LogMessage("Info", "Claiming code", FALSE),
   LogMessage("Warn", "Rate-limited...", FALSE)}

\* add_message(level, text, is_success)
CallAddMessage ==
  /\ Len(blk.messages) < MaxMessages
  /\ \E m \in BlockMessages : blk' = add_message(blk, m)
  /\ UNCHANGED <<clock, printed, calls, pipeVars, payloadVars, mainVars>>

\* freeze_time()
CallFreezeTime ==
  /\ Len(calls) < MaxCalls
  /\ blk' = freeze_time(blk, clock)
  /\ calls' = Append(calls, "freeze_time")
  /\ UNCHANGED <<clock, printed, pipeVars, payloadVars, mainVars>>

\* send(location_cache, sender)
CallSend ==
  /\ Len(calls) < MaxCalls
  /\ \E l \in Locations :
       LET b == send_prepare(blk, l, clock)
       IN /\ blk' = b
          /\ printed' = printed \o SendOutput(b, l, "alice")
  /\ calls' = Append(calls, "send")
  /\ UNCHANGED <<clock, pipeVars, payloadVars, mainVars>>

\* time passes between the calls
ClockTick ==
  /\ clock < blk.start + MaxClock
  /\ clock' = clock + 1
  /\ UNCHANGED <<blk, printed, calls, pipeVars, payloadVars, mainVars>>

NextLogBlock == CallAddMessage \/ CallFreezeTime \/ CallSend \/ ClockTick

SpecLogBlock == InitLogBlock /\ [][NextLogBlock]_vars

\* ------------------------------------------------------------ WebhookPayload alone
PayloadMessages ==
  {[id |-> 1, author |-> a, author_id |-> <<"id", a>>, channel_id |-> "chan",
    guild_id |-> g, gift_code |-> <<"codeA">>] :
      a \in Authors, g \in {<<>>, <<"guildOk">>}}

\* one message, one finder and one build time are fixed
InitPayload ==
  /\ IdlePipe /\ IdleBlock /\ MainJoined
  /\ pin \in [message : PayloadMessages, finder : Profiles, time : 0..MaxTime]
  /\ built = {}

\* WebhookPayload::new(message, finder, result)
BuildPayload ==
  /\ \E r \in SnipeResults :
       /\ \A b \in built : b.result # r
       /\ built' = built \cup
            {[result |-> r, payload |-> WebhookPayload_new(pin.message, pin.finder, r, pin.time)]}
  /\ UNCHANGED <<pin, pipeVars, blockVars, mainVars>>

NextPayload == BuildPayload

SpecPayload == InitPayload /\ [][NextPayload]_vars

\* ------------------------------------------------------------ vocabulary of the properties
Running == {"m_store", "m_user", "m_guilds", "m_lock", "m_request", "m_response", "m_body",
            "m_freeze", "m_location", "m_send", "m_lines", "m_webhook"}
InCriticalSection == {"m_request", "m_response", "m_body", "m_freeze", "m_location",
                      "m_send", "m_lines", "m_webhook"}

\* the handler of e has run the membership test on seen_codes
Tested(e) == pc[e] \in InCriticalSection \cup {"duplicate", "done"}
\* ... and its insert succeeded
Won(e) == pc[e] \in InCriticalSection \cup {"done"}
Returned(e) == pc[e] \notin Running \cup {"idle"}

CodeOf(e) == content[e][1].gift_code[1]
DeliveriesOf(c) == {e \in Events : Tested(e) /\ CodeOf(e) = c}
WinnersOf(c) == {e \in DeliveriesOf(c) : Won(e)}
RequestsFor(c) == {r \in requests : r.code = c}
RequestsOf(e) == {r \in requests : r.event = e}
LinesOf(e, kind) == {i \in 1..Len(stdout) : stdout[i].event = e /\ stdout[i].kind = kind}
Posted(e) == webhooks[e] # <<>> /\ webhooks[e][1].state = "posted"

\* ------------------------------------------------------------ C1
\* C1: however many deliveries of one code run the test-and-insert on seen_codes, on
\* whichever sessions and in whichever order, the insert succeeds for exactly one of
\* them, only that one issues a redeem request, and it issues exactly one.
C1_ExactlyOneRedeem ==
  \A c \in Codes :
    /\ Cardinality(RequestsFor(c)) <= 1
    /\ DeliveriesOf(c) # {} => Cardinality(WinnersOf(c)) = 1
    /\ \A r \in RequestsFor(c) : r.event \in WinnersOf(c)
    /\ \A e \in WinnersOf(c) : pc[e] # "m_request" => Cardinality(RequestsOf(e)) = 1

\* two deliveries of one code on two sessions have both finished: one request
C1_Witness ==
  \E e1, e2 \in Events :
    /\ e1 # e2 /\ pc[e1] = "done" /\ pc[e2] = "duplicate"
    /\ SessionOf(e1) # SessionOf(e2)
    /\ CodeOf(e1) = CodeOf(e2)
    /\ Cardinality(RequestsFor(CodeOf(e1))) = 1

\* ------------------------------------------------------------ C2
\* C2: while the redeem request, the location lookup, the log flush or the
\* notification of some event is in progress, nobody holds the seen_codes lock.
C2_LockFreeDuringIO ==
  (\E e \in Events : pc[e] \in {"m_response", "m_body", "m_location", "m_lines"} \/ Posted(e))
    => lock = 0

\* ------------------------------------------------------------ C3
\* C3: a delivery that finds its code in seen_codes at its membership test issues no
\* redeem request, creates no log block, prints nothing, dispatches no notification
\* and leaves seen_codes as it was, whichever session it arrives on.
C3_DuplicateStep(e) ==
  (pc[e] = "m_lock" /\ pc'[e] # "m_lock" /\ CodeOf(e) \in seen_codes)
    => /\ pc'[e] = "duplicate"
       /\ UNCHANGED <<seen_codes, lock, requests, stdout, webhooks, log>>

C3_DuplicateSilent(e) ==
  pc[e] = "duplicate"
    => /\ RequestsOf(e) = {}
       /\ log[e] = <<>>
       /\ \A i \in 1..Len(stdout) : stdout[i].event # e
       /\ webhooks[e] = <<>>

C3_NoEffectOfDuplicate ==
  /\ [][\A e \in Events : C3_DuplicateStep(e)]_vars
  /\ [](\A e \in Events : C3_DuplicateSilent(e))

\* a second delivery of a claimed code on the same session has been discarded
C3_Witness ==
  \E e1, e2 \in Events :
    /\ pc[e1] = "done" /\ pc[e2] = "duplicate"
    /\ SessionOf(e1) = SessionOf(e2)
    /\ CodeOf(e1) = CodeOf(e2)
    /\ Cardinality(requests) = 1
    /\ seen_codes = {CodeOf(e1)}

\* ------------------------------------------------------------ C4
\* C4: the SnipeResult is a function of the result of the redeem request: 200 Success,
\* 405 DiscordError, 404 FakeOrExpired, 400 AlreadyRedeemed, 429 RateLimited, any
\* other status Unknown, no response ConnectionError.
C4_Table ==
  (200 :> "Success") @@ (405 :> "DiscordError") @@ (404 :> "FakeOrExpired")
    @@ (400 :> "AlreadyRedeemed") @@ (429 :> "RateLimited")

C4_Outcome(resp) ==
  IF ~resp.ok THEN "ConnectionError"
  ELSE IF resp.status \in DOMAIN C4_Table THEN C4_Table[resp.status] ELSE "Unknown"

C4_OutcomeTable ==
  \A e \in Events :
    /\ (response[e] # <<>>) = (result[e] # <<>>)
    /\ result[e] # <<>> => result[e] = <<C4_Outcome(response[e][1])>>
    /\ result[e] # <<>> => result[e][1] \in SnipeResults

\* a 404 has been classified as FakeOrExpired
C4_Witness ==
  \E e \in Events :
    /\ response[e] = <<[ok |-> TRUE, status |-> 404]>>
    /\ result[e] = <<"FakeOrExpired">>

\* ------------------------------------------------------------ C5
\* C5 as stated: every redeem request carries the credential of the session whose
\* event claimed the code.
C5_SessionCredential == \A r \in requests : r.authorization = sniping_tokens[r.session]

\* C5 amended: every redeem request carries the primary credential
\* (config.main_token()), whichever session's event claimed the code.
C5_MainCredential == \A r \in requests : r.authorization = main_token

\* a session whose credential is not the primary one has issued a redeem request
C5_Witness == \E r \in requests : sniping_tokens[r.session] # main_token

\* ------------------------------------------------------------ C6
\* C6: an event that won the claim has one flushed log block once its handler has
\* returned, and never more than one: one header and one elapsed line, whatever the
\* outcome of the request and of the location lookup.
C6_OneFlushedBlock ==
  \A e \in Events :
    /\ Cardinality(LinesOf(e, "header")) <= 1
    /\ Cardinality(LinesOf(e, "elapsed")) <= 1
    /\ (RequestsOf(e) # {} /\ (Returned(e) \/ pc[e] = "m_webhook"))
         => /\ Cardinality(LinesOf(e, "header")) = 1
            /\ Cardinality(LinesOf(e, "elapsed")) = 1

\* the request failed at the transport, the lookup failed, and the block is flushed
C6_Witness ==
  \E e \in Events :
    /\ pc[e] = "m_webhook"
    /\ result[e] = <<"ConnectionError">>
    /\ ~location[e][1].ok
    /\ Cardinality(LinesOf(e, "elapsed")) = 1

\* ------------------------------------------------------------ C7
\* C7: once the elapsed value of a block is set, no later call changes it; a second
\* freeze_time leaves the value of the first.
C7_FreezeTimeIdempotent == [][blk.elapsed # <<>> => blk'.elapsed = blk.elapsed]_vars

\* ------------------------------------------------------------ C8
\* C8: the lines of one block's flush are contiguous in the output: no line of another
\* block lies between two lines of the same block.
C8_FlushesContiguous ==
  \A i, k \in 1..Len(stdout) :
    (i < k /\ stdout[i].event = stdout[k].event)
      => \A j \in i..k : stdout[j].event = stdout[i].event

\* the blocks of two events claimed on two sessions have both been flushed
C8_Witness ==
  \E e1, e2 \in Events :
    /\ e1 # e2
    /\ LinesOf(e1, "elapsed") # {} /\ LinesOf(e2, "elapsed") # {}
    /\ SessionOf(e1) # SessionOf(e2)

\* ------------------------------------------------------------ C9
\* C9: the title and the colour of a posted notification are those the table gives
\* for the SnipeResult it was spawned with, and the titles differ from each other.
C9_Hex(a, b, c, d, e, f) ==
  ((((a * 16 + b) * 16 + c) * 16 + d) * 16 + e) * 16 + f

C9_Table ==
  [r \in SnipeResults |->
    CASE r = "Success" -> <<"Yay! Claimed a Nitro!", C9_Hex(4, 3, 11, 5, 8, 1)>>
      [] r = "FakeOrExpired" -> <<"Code was fake or expired", C9_Hex(15, 0, 4, 7, 4, 7)>>
      [] r = "AlreadyRedeemed" -> <<"Code was already redeemed", C9_Hex(15, 0, 4, 7, 4, 7)>>
      [] r = "RateLimited" -> <<"Rate Limited", C9_Hex(15, 0, 4, 7, 4, 7)>>
      [] r = "DiscordError" -> <<"Discord Error", C9_Hex(15, 0, 4, 7, 4, 7)>>
      [] r = "ConnectionError" -> <<"Connection Error", C9_Hex(15, 0, 4, 7, 4, 7)>>
      [] r = "Unknown" -> <<"Unknown Response", 0>>]

C9_TitleAndColour ==
  /\ \A r1, r2 \in SnipeResults : r1 # r2 => C9_Table[r1][1] # C9_Table[r2][1]
  /\ \A e \in Events :
       Posted(e) =>
         LET w == webhooks[e][1]
         IN <<w.payload[1].title, w.payload[1].color>> = C9_Table[w.result[1]]

\* a rate-limited redeem has its notification posted
C9_Witness ==
  \E e \in Events :
    /\ Posted(e)
    /\ webhooks[e][1].result = <<"RateLimited">>
    /\ webhooks[e][1].payload[1].title = "Rate Limited"

\* ------------------------------------------------------------ C10
\* C10: payloads built for one message, one finder and one build time under different
\* SnipeResults differ in nothing but title, description and colour.
C10_Rest(p) ==
  <<p.username, p.avatar_url, p.author, p.sent_by, p.posted, p.footer, p.timestamp>>

C10_OnlyEmbedDependsOnResult ==
  \A a, b \in built : C10_Rest(a.payload) = C10_Rest(b.payload)

\* payloads of all seven results are built, with different titles
C10_Witness ==
  /\ {b.result : b \in built} = SnipeResults
  /\ Cardinality({b.payload.title : b \in built}) = Cardinality(SnipeResults)

\* ------------------------------------------------------------ C11
C11_LostAllConnections == exit_message = <<"Lost all connections.">>
C11_AllTasksTerminated ==
  /\ index > token_amount
  /\ \A s \in Sessions : task[s] \in {"skipped", "ended", "failed"}

\* C11: main logs "Lost all connections." and exits only when its loop over the
\* tokens is over and no session's task is running; and once that is so (also when
\* every token was skipped) main reaches the exit: the message is logged, the prompt
\* answered and the process gone.
C11_ExitAfterAllSessions ==
  /\ [](C11_LostAllConnections => C11_AllTasksTerminated)
  /\ [](Terminated /\ validation = <<"Ok">> => C11_LostAllConnections)
  /\ (C11_AllTasksTerminated ~> (Terminated /\ C11_LostAllConnections))

\* one session's connection failed, the other's ended, and the process has exited
C11_Witness ==
  /\ main_pc = "exited" /\ C11_LostAllConnections
  /\ \E s, t \in Sessions : task[s] = "failed" /\ task[t] = "ended"

\* no session could be established, and the process has exited
C11_WitnessNoSession ==
  /\ main_pc = "exited" /\ C11_LostAllConnections
  /\ \A s \in Sessions : task[s] = "skipped"

\* ------------------------------------------------------------ C12
C12_ValidationFailed == validation # <<>> /\ validation # <<"Ok">>

\* C12: when the validation of the main token fails, whatever the kind of failure,
\* the process ends only after it has logged its message and waited at the prompt
\* of pause_exit, no session's task is started and nothing is connected.
C12_FatalAfterAcknowledgment ==
  C12_ValidationFailed =>
    /\ main_pc \in {"pause", "exited", "panicked"}
    /\ exit_message # <<>> /\ prompted
    /\ index = 1 /\ \A s \in Sessions : task[s] = "none"
    /\ connected = 0 /\ \A s \in Sessions : rpc[s] = "idle"

\* ------------------------------------------------------------ C13
C13_NotRetried == {"RateLimited", "DiscordError", "ConnectionError", "Unknown"}

\* C13: an event issues at most one redeem request whatever its outcome; a code that
\* was requested, or whose request has an outcome, is in seen_codes and is never
\* taken out of it, so a code is requested once at most, by whichever session.
C13_NoRetry ==
  /\ [](\A e \in Events : Cardinality(RequestsOf(e)) <= 1 /\ \A r \in RequestsOf(e) : r.attempt = 1)
  /\ [](\A e \in Events : result[e] # <<>> => CodeOf(e) \in seen_codes /\ RequestsOf(e) # {})
  /\ [](\A r \in requests : r.code \in seen_codes)
  /\ [](\A r1, r2 \in requests : r1.code = r2.code => r1.event = r2.event)
  /\ [][seen_codes \subseteq seen_codes' /\ requests \subseteq requests']_vars
  /\ [][\A e \in Events :
          (result[e] # <<>> /\ result[e][1] \in C13_NotRetried /\ pc'[e] # pc[e])
            => pc'[e] \notin {"m_lock", "m_request", "m_response"}]_vars

\* a rate-limited code is delivered again on another session and is discarded there:
\* one request for it in all
C13_Witness ==
  \E e1, e2 \in Events :
    /\ webhooks[e1] # <<>> /\ webhooks[e1][1].result = <<"RateLimited">>
    /\ pc[e2] = "duplicate" /\ CodeOf(e2) = CodeOf(e1)
    /\ SessionOf(e1) # SessionOf(e2)
    /\ Cardinality(requests) = 1

\* ------------------------------------------------------------ C14
C14_Frozen(e) == log[e] # <<>> /\ log[e][1].elapsed # <<>>

C14_State(e) ==
  /\ (pc[e] = "m_request" \/ RequestsOf(e) # {}) => CodeOf(e) \in seen_codes
  /\ C14_Frozen(e) =>
       /\ RequestsOf(e) # {} /\ result[e] # <<>>
       /\ Len(log[e][1].messages) >= 2
  /\ (pc[e] = "m_location" \/ location[e] # <<>>) => C14_Frozen(e)
  /\ (LinesOf(e, "header") # {} /\ ~Returned(e)) => location[e] # <<>>
  /\ webhooks[e] # <<>> => LinesOf(e, "elapsed") # {}

C14_Step(e) ==
  /\ RequestsOf(e)' # RequestsOf(e) => CodeOf(e) \in seen_codes
  /\ (~C14_Frozen(e) /\ C14_Frozen(e)') =>
       /\ result[e] # <<>> /\ Len(log[e][1].messages) >= 2
       /\ location[e] = <<>> /\ pc[e] # "m_location"
  /\ LinesOf(e, "header")' # LinesOf(e, "header") => location[e] # <<>> /\ C14_Frozen(e)
  /\ webhooks'[e] # webhooks[e] /\ webhooks[e] = <<>> => LinesOf(e, "elapsed") # {}

\* C14: in the handling of one event the insert into seen_codes comes before the
\* redeem request, the result and its entry before the freeze of the elapsed time,
\* the freeze before the location lookup is started, the end of the lookup before the
\* first printed line, and the last printed line before the notification is spawned.
C14_StepsInOrder ==
  /\ [](\A e \in Events : C14_State(e))
  /\ [][\A e \in Events : C14_Step(e)]_vars

\* an event went through every step: requested, flushed and notified
C14_Witness ==
  \E e \in Events :
    /\ pc[e] = "done" /\ RequestsOf(e) # {}
    /\ LinesOf(e, "header") # {} /\ LinesOf(e, "elapsed") # {}
    /\ webhooks[e] # <<>> /\ webhooks[e][1].state = "spawned"

\* ------------------------------------------------------------ C15
\* the notification task of e takes a step: it posts, or it gets its answer
C15_TaskStep(e) == webhooks[e] # <<>> /\ webhooks'[e] # webhooks[e]

\* C15: whenever the notification task of an event exists, the event's handler has
\* returned and holds nothing; and a step of the task, whatever the answer of the
\* sink, changes neither seen_codes, nor the lock, nor the printed lines, nor the
\* requests, nor the position or the locals of any handler, nor another task.
C15_NotificationDetached ==
  /\ [](\A e \in Events :
          webhooks[e] # <<>> => pc[e] = "done" /\ lock # e /\ log[e] = <<>>)
  /\ [][\A e \in Events :
          C15_TaskStep(e) =>
            /\ UNCHANGED <<sharedVars, rpc, eventVars, requests, stdout>>
            /\ \A e2 \in Events \ {e} : webhooks'[e2] = webhooks[e2]]_vars

\* the notification of one event was refused by the sink; another event was claimed,
\* requested and flushed all the same
C15_Witness ==
  \E e1, e2 \in Events :
    /\ webhooks[e1] # <<>> /\ webhooks[e1][1].answer = <<"Err">>
    /\ e1 < e2 /\ pc[e2] = "done" /\ RequestsOf(e2) # {}
    /\ LinesOf(e1, "elapsed") # {} /\ LinesOf(e2, "elapsed") # {}
    /\ seen_codes = {CodeOf(e1), CodeOf(e2)}

\* ------------------------------------------------------------ C16
\* the entry make_request adds for each SnipeResult
C16_Entry ==
  [r \in SnipeResults |->
    CASE r = "Success" -> <<"Info", "Yay! Claimed code!">>
      [] r = "FakeOrExpired" -> <<"Warn", "Code was fake or expired.">>
      [] r = "AlreadyRedeemed" -> <<"Error", "Code was already redeemed.">>
      [] r = "RateLimited" -> <<"Warn", "Rate-limited...">>
      [] r = "DiscordError" -> <<"Error", "There was an error on Discord's side.">>
      [] r = "ConnectionError" -> <<"Warn", "Connection failed. Check network connection!">>
      [] r = "Unknown" -> <<"Error", "Received unknown response...">>]

C16_Spawned(e) == webhooks[e] = <<>> /\ webhooks'[e] # <<>>

C16_Order == [s \in {"spawned", "posted", "finished"} |->
                CASE s = "spawned" -> 1 [] s = "posted" -> 2 [] s = "finished" -> 3]

\* C16: with a webhook configured every claimed event has spawned one notification
\* task when its handler returns, whatever its SnipeResult, the task is spawned once,
\* and it carries the SnipeResult whose entry is the second of the event's block;
\* without a webhook no event ever has a task.
C16_OneNotificationPerClaim ==
  /\ [](\A e \in Events : pc[e] = "done" => ((webhooks[e] # <<>>) <=> (webhook_url # <<>>)))
  /\ [](\A e \in Events : webhooks[e] # <<>> => pc[e] = "done" /\ RequestsOf(e) # {})
  /\ [](webhook_url = <<>> => \A e \in Events : webhooks[e] = <<>>)
  /\ [][\A e \in Events :
          /\ C16_Spawned(e) =>
               /\ result[e] # <<>> /\ webhooks'[e][1].result = result[e]
               /\ webhooks'[e][1].state = "spawned"
               /\ LET m == log[e][1].messages[2]
                  IN <<m.level, m.text>> = C16_Entry[result[e][1]]
          /\ (webhooks[e] # <<>> /\ webhooks'[e] # webhooks[e]) =>
               /\ webhooks'[e] # <<>>
               /\ C16_Order[webhooks'[e][1].state] > C16_Order[webhooks[e][1].state]]_vars
  /\ [](\A e \in Events :
          Posted(e) => webhooks[e][1].payload[1].title = WebhookEmbed(webhooks[e][1].result[1]).title)

\* the redeem request failed at the transport and its notification is posted, titled
\* "Connection Error"
C16_Witness ==
  \E e \in Events :
    /\ Posted(e) /\ pc[e] = "done"
    /\ webhooks[e][1].result = <<"ConnectionError">>
    /\ webhooks[e][1].payload[1].title = "Connection Error"

\* ------------------------------------------------------------ C17
C17_ErrorEntry == LogMessage("Error", "Failed requesting location for event.", FALSE)
C17_HeaderOf(e) == {stdout[i] : i \in LinesOf(e, "header")}
C17_LookupFailed(e) == location[e] # <<>> /\ ~location[e][1].ok

\* the step of e's handler that prints the header of its block
C17_Flush(e) == LinesOf(e, "header") = {} /\ LinesOf(e, "header")' # {}

\* C17: when the location lookup of a claimed event has failed, the flush appends the
\* error entry as the last entry of the block, which is frozen by then, leaves the
\* elapsed value as it was frozen before the lookup, and prints the default location
\* in the header; the handler goes on: the block is printed to its last line and the
\* notification is spawned as for any other event.
C17_LocationFailureDegrades ==
  /\ [][\A e \in Events :
          (C17_Flush(e) /\ C17_LookupFailed(e)) =>
            /\ log[e][1].elapsed # <<>>
            /\ log'[e][1].elapsed = log[e][1].elapsed
            /\ log'[e][1].messages = Append(log[e][1].messages, C17_ErrorEntry)
            /\ \A l \in C17_HeaderOf(e)' : l.location = <<DefaultLocation>>
            /\ pc'[e] = "m_lines"]_vars
  /\ [](\A e \in Events :
          (C17_LookupFailed(e) /\ pc[e] \in {"m_lines", "m_webhook"}) =>
            LET ms == log[e][1].messages
            IN /\ ms[Len(ms)] = C17_ErrorEntry
               /\ \A i \in 1..(Len(ms) - 1) : ms[i] # C17_ErrorEntry
               /\ \A l \in C17_HeaderOf(e) : l.location = <<DefaultLocation>>)
  /\ [](\A e \in Events :
          (pc[e] = "done" /\ \E l \in C17_HeaderOf(e) : l.location = <<DefaultLocation>>) =>
            /\ Cardinality(LinesOf(e, "elapsed")) = 1
            /\ Cardinality(LinesOf(e, "entry")) >= 3
            /\ webhook_url # <<>> => webhooks[e] # <<>>)

\* the lookup of a claimed event failed: its block is flushed under the default
\* location with the error entry as a third line, and its notification is spawned
C17_Witness ==
  \E e \in Events :
    /\ pc[e] = "done"
    /\ \E l \in C17_HeaderOf(e) : l.location = <<DefaultLocation>>
    /\ Cardinality(LinesOf(e, "entry")) = 3 /\ LinesOf(e, "elapsed") # {}
    /\ webhooks[e] # <<>>

\* ------------------------------------------------------------ C18
C18_Printed(e) == SelectSeq(stdout, LAMBDA l : l.event = e)

\* the header, then entries 1, 2, .. in this order, then at most the elapsed line
C18_Shape(ls) ==
  Len(ls) > 0 =>
    /\ ls[1].kind = "header"
    /\ \A i \in 2..Len(ls) :
         \/ ls[i].kind = "entry" /\ ls[i].index = i - 1
         \/ ls[i].kind = "elapsed" /\ i = Len(ls)

\* Open, TimeFrozen, Flushed (the flush has begun) as 1, 2, 3
C18_Rank(e) ==
  IF LinesOf(e, "header") # {} THEN 3 ELSE IF log[e][1].elapsed # <<>> THEN 2 ELSE 1

C18_IsPrefix(a, b) == Len(a) <= Len(b) /\ \A i \in 1..Len(a) : a[i] = b[i]

C18_State(e) ==
  LET ls == C18_Printed(e)
      entries == Len(SelectSeq(ls, LAMBDA l : l.kind = "entry"))
  IN /\ C18_Shape(ls)
     /\ log[e] # <<>> =>
          LET b == log[e][1]
          IN /\ b.messages[1] = LogMessage("Info", "Claiming code", FALSE)
             /\ Len(b.messages) >= 2 => b.messages[2] = OutcomeMessage(response[e][1])
             /\ Len(ls) > 0 => b.elapsed # <<>>
             /\ entries <= Len(b.messages)
             /\ (Len(ls) > 0 /\ ls[Len(ls)].kind = "elapsed") => entries = Len(b.messages)

C18_Step(e) ==
  /\ (log'[e] # log[e] /\ log[e] # <<>> /\ log'[e] # <<>>) =>
       /\ C18_Rank(e)' >= C18_Rank(e)
       /\ C18_IsPrefix(log[e][1].messages, log'[e][1].messages)
       /\ LinesOf(e, "header") = {}
  /\ stdout' # stdout =>
       /\ C18_IsPrefix(stdout, stdout') /\ Len(stdout') = Len(stdout) + 1
       /\ stdout'[Len(stdout')].event = e => LinesOf(e, "elapsed") = {}

\* C18: the block of an event goes from open to frozen to flushed and never back:
\* entries are only appended, none once the flush has begun; the block is flushed
\* once; the elapsed value is set when the flush begins; and the flush prints the
\* header, then every entry in the order of the appends, the claim entry first and
\* the outcome entry second, then the elapsed line, after which nothing.
C18_BlockStateMachine ==
  /\ [](\A e \in Events : C18_State(e))
  /\ [][\A e \in Events : C18_Step(e)]_vars

\* a block of four entries (claim, unknown response, its body, failed lookup) has been
\* printed to its last line
C18_Witness ==
  \E e \in Events :
    /\ pc[e] = "m_webhook" /\ Len(log[e][1].messages) = 4
    /\ Len(C18_Printed(e)) = 6
    /\ C18_Printed(e)[6].kind = "elapsed"

\* ------------------------------------------------------------ C19
C19_Reported == {s \in Sessions : profile[s] # <<>>}

RECURSIVE C19_Guilds(_)
C19_Guilds(S) ==
  IF S = {} THEN 0
  ELSE LET s == CHOOSE x \in S : TRUE IN GuildAmountOf(s) + C19_Guilds(S \ {s})

C19_Step ==
  /\ \A s \in Sessions : profile[s] # <<>> => profile'[s] = profile[s]
  /\ \/ /\ C19_Reported' = C19_Reported
        /\ connected' = connected /\ total_guilds' = total_guilds
     \/ \E s \in Sessions \ C19_Reported :
          /\ C19_Reported' = C19_Reported \cup {s}
          /\ connected' = connected + 1
          /\ total_guilds' = total_guilds + GuildAmountOf(s)

\* C19: in every interleaving of a session's ready handler and its message handlers
\* the profile of a session is set at most once and never changed, and connected and
\* total_guilds grow together with it, once per session: connected counts the
\* sessions whose profile is set and never exceeds token_amount.
C19_ReadinessOnce ==
  /\ [](connected = Cardinality(C19_Reported) /\ connected <= token_amount)
  /\ [](total_guilds = C19_Guilds(C19_Reported))
  /\ [][C19_Step]_vars

\* the ready handler and a message handler of one session both saw the flag unset:
\* the message handler initialized the session, the ready handler came second
C19_Witness ==
  \E s \in Sessions :
    /\ rpc[s] = "panicked" /\ profile[s] # <<>>
    /\ \E e \in Events : msg[e] # <<>> /\ SessionOf(e) = s /\ pc[e] \notin {"m_store", "m_user", "m_guilds", "panicked"}
    /\ connected = token_amount

\* ------------------------------------------------------------ C20
C20_Over == {"ended", "failed"}

\* the task of session s finishes in this step
C20_Ends(s) == task[s] = "running" /\ task'[s] \in C20_Over

C20_Step ==
  /\ index' \in {index, index + 1}
  /\ \A s \in Sessions :
       /\ task'[s] # task[s] =>
            \/ task[s] = "none" /\ index = s /\ index' = s + 1
                 /\ task'[s] \in {"running", "skipped"}
            \/ C20_Ends(s)
       /\ C20_Ends(s) =>
            /\ \A t \in Sessions \ {s} : task'[t] = task[t]
            /\ UNCHANGED <<pipeVars, main_pc, index, exit_message>>

\* C20: every token is tried once, in its turn: a token whose client could not be
\* built is skipped for good, gets no task and no event; the end of a session's task
\* changes nothing of any other session, of any handler or of main; a running session
\* is handed its messages whatever became of the others; and the process is alive
\* as long as a session runs.
C20_SessionsIndependent ==
  /\ [][C20_Step]_vars
  /\ [](\A s \in Sessions :
          task[s] = "skipped" =>
            /\ index > s /\ rpc[s] = "idle" /\ ~initialized[s]
            /\ \A e \in Events : msg[e] # <<>> => SessionOf(e) # s)
  /\ [](\A t \in Sessions :
          task[t] = "running" =>
            /\ Alive /\ main_pc \in {"connect", "join"}
            /\ pc[1] = "idle" => ENABLED (SessionMessage(1) /\ SessionOf(1)' = t))

\* one session's connection failed; the other is running, and a code delivered to it
\* was claimed, requested and flushed
C20_Witness ==
  \E s, t \in Sessions :
    /\ task[s] = "failed" /\ task[t] = "running" /\ main_pc = "join"
    /\ \E e \in Events :
         /\ msg[e] # <<>> /\ SessionOf(e) = t
         /\ pc[e] = "done" /\ RequestsOf(e) # {} /\ LinesOf(e, "elapsed") # {}

\* the first token was skipped; the second session runs and has redeemed a code
C20_WitnessSkipped ==
  /\ task[1] = "skipped" /\ task[2] = "running"
  /\ \E e \in Events : msg[e] # <<>> /\ SessionOf(e) = 2 /\ pc[e] = "done" /\ RequestsOf(e) # {}

\* ------------------------------------------------------------ C21
\* what the handler of e has read of its message asks for a discard
C21_ToDiscard(e) ==
  content[e] # <<>> /\
    (content[e][1].guild_id = <<"guildBlacklisted">> \/ content[e][1].gift_code = <<>>)

C21_Silent(e) ==
  /\ RequestsOf(e) = {} /\ log[e] = <<>> /\ webhooks[e] = <<>> /\ lock # e
  /\ \A i \in 1..Len(stdout) : stdout[i].event # e

\* C21: a message from a blacklisted server, or one without a code, is discarded: the
\* step that discards it leaves seen_codes, the lock, the requests, the output and
\* the notification tasks as they were, and the event never has a request, a block,
\* a line or a task. Only claimed events put codes in seen_codes, so a code seen
\* first on a blacklisted server is still claimed when it comes from another server.
C21_DiscardLeavesNoTrace ==
  /\ [](\A e \in Events : C21_ToDiscard(e) <=> pc[e] = "discarded")
  /\ [](\A e \in Events : pc[e] = "discarded" => C21_Silent(e))
  /\ [](\A c \in seen_codes :
          \E e \in Events : content[e] # <<>> /\ ~C21_ToDiscard(e) /\ CodeOf(e) = c /\ Won(e))
  /\ [][\A e \in Events :
          (pc[e] # "discarded" /\ pc'[e] = "discarded")
            => UNCHANGED <<seen_codes, lock, requests, stdout, webhooks, log>>]_vars

\* a code came first from a blacklisted server and was discarded; it came again from
\* another server and was claimed, requested and flushed
C21_Witness ==
  \E e1, e2 \in Events :
    /\ e1 < e2 /\ pc[e1] = "discarded" /\ pc[e2] = "done"
    /\ content[e1][1].guild_id = <<"guildBlacklisted">>
    /\ content[e1][1].gift_code = content[e2][1].gift_code
    /\ RequestsOf(e2) # {} /\ LinesOf(e2, "elapsed") # {}
    /\ seen_codes = {CodeOf(e2)}

\* ------------------------------------------------------------ C23
\* the handler of e is at or past seen_codes.lock(): LogBlock::new and send_webhook,
\* which read the profile cell, lie ahead of it or behind it
C23_PastProfileTest(e) == pc[e] \in {"m_lock", "duplicate", "done"} \cup InCriticalSection

C23_Untouched(e) ==
  /\ content[e] = <<>> /\ RequestsOf(e) = {} /\ log[e] = <<>> /\ webhooks[e] = <<>>
  /\ lock # e
  /\ \A i \in 1..Len(stdout) : stdout[i].event # e

\* C23: the profile cell is set whenever a handler is past the test of the cell, so
\* LogBlock::new and send_webhook read a profile: the block and the notification task
\* carry the session's profile, and a handler panics only inside the initialization.
\* A message delivered while self.initialized is true and the cell is empty is dropped:
\* that step changes neither seen_codes nor the lock, and the event never has a
\* request, a block, a line or a notification task.
C23_ProfileSetBeforeRead ==
  /\ [](\A e \in Events :
          C23_PastProfileTest(e) => initialized[SessionOf(e)] /\ profile[SessionOf(e)] # <<>>)
  /\ [](\A e \in Events :
          /\ log[e] # <<>> => log[e][1].profile = profile[SessionOf(e)][1]
          /\ (webhooks[e] # <<>> /\ webhooks[e][1].state \in {"spawned", "posted"})
               => webhooks[e][1].profile = profile[SessionOf(e)]
          /\ pc[e] = "panicked" => content[e] = <<>>)
  /\ [](\A e \in Events : pc[e] = "dropped" => C23_Untouched(e))
  /\ [][\A e \in Events :
          (pc[e] = "idle" /\ pc'[e] # "idle")
            => LET s == SessionOf(e)'
               IN (pc'[e] = "dropped" <=> (initialized[s] /\ profile[s] = <<>>))
                  /\ (pc'[e] = "dropped" =>
                        UNCHANGED <<seen_codes, lock, requests, stdout, webhooks, log>>)]_vars

\* a message was dropped on a session whose ready handler had stored the flag and not
\* yet the profile; the next message of that session, with the profile set, was
\* claimed and flushed
C23_Witness ==
  \E e1, e2 \in Events :
    /\ e1 < e2 /\ pc[e1] = "dropped" /\ pc[e2] = "done"
    /\ SessionOf(e1) = SessionOf(e2) /\ SessionOf(e1) # FirstSession
    /\ rpc[SessionOf(e1)] = "done"
    /\ seen_codes = {CodeOf(e2)} /\ RequestsOf(e2) # {} /\ RequestsOf(e1) = {}

\* ------------------------------------------------------------ C22
\* the handler of e has returned after the test on seen_codes: as a duplicate, or
\* with its block printed down to the elapsed time
C22_Finished(e) ==
  \/ pc[e] = "duplicate"
  \/ pc[e] = "done" /\ LinesOf(e, "elapsed") # {} /\ log[e] = <<>>

\* C22: when the handlers are scheduled fairly and every awaited call returns, each
\* message with a code from a server that is not blacklisted, delivered to an
\* initialized session, ends as a duplicate or with its block flushed and the guard
\* given back: no handler stays at seen_codes.lock() for ever, whatever the other
\* sessions' handlers do.
C22_EveryEventFinishes ==
  \A e \in Events :
    (pc[e] \in {"m_lock"} \cup InCriticalSection) ~> (C22_Finished(e) /\ lock # e)

\* a handler waits at seen_codes.lock() while the handler of another session holds
\* the guard across its redeem request
C22_Witness ==
  \E e1, e2 \in Events :
    /\ lock = e1 /\ pc[e1] = "m_response"
    /\ pc[e2] = "m_lock"
    /\ SessionOf(e1) # SessionOf(e2)

====
